---------------------------- MODULE Spec2Model ----------------------------
(***************************************************************************)
(* Retirement planner: the projection engine of RetirementCalculator.tsx   *)
(* (calculateFutureValue, projectedTotal, simulateYearly), the second copy *)
(* of calculateFutureValue and generateProjections in GrowthProjection.tsx,*)
(* and the component's handlers with the state they save to localStorage.  *)
(* Specifications: Spec (simulateYearly), SpecFV (calculateFutureValue),   *)
(* SpecGP (generateProjections), SpecUI (handlers, save effect, load).     *)
(*                                                                         *)
(* Numbers.  The program computes on JavaScript numbers.  The model        *)
(* computes on exact rationals [n, d] in lowest terms with d > 0, so +, -, *)
(* *, / and the comparisons are those of the reals; the rounding of IEEE   *)
(* doubles is not modelled.  Math.pow is the one exception: its exact      *)
(* value does not fit the checker's integers, and its result is rounded to *)
(* a multiple of 1/PowScale (Math.pow is itself an implementation-         *)
(* approximated function).  TLC stops with an error on any integer         *)
(* overflow, so no value is ever silently wrong.                           *)
(***************************************************************************)
EXTENDS Integers, Sequences, FiniteSets, TLC

VARIABLES
    accounts,         \* React state: the account records (type, amount, monthlyContribution)
    currentAge,       \* React state
    retirementAge,    \* React state
    investmentRate,   \* React state, a percentage
    savingsRate,      \* React state, a percentage
    withdrawalRate,   \* React state, a percentage
    pc,               \* position in simulateYearly: "idle", "start", "loop", "done"
    y,                \* loop counter of simulateYearly
    bs,               \* running conservative (savings) bucket balance
    bi,               \* running growth (investment) bucket balance
    annualWithdrawal, \* const annualWithdrawal of simulateYearly
    rows,             \* rows pushed so far
    fvArgs,           \* arguments of a stand-alone calculateFutureValue call
    fvRC,             \* its result in RetirementCalculator
    fvGP,             \* its result in GrowthProjection
    viewAge,          \* React state, passed to GrowthProjection
    gpPc,             \* position in generateProjections: "idle", "start", "loop", "done", "TypeError"
    gpYear,           \* loop counter (year) of generateProjections
    projections,      \* points pushed so far
    storage,          \* localStorage's entry under STORAGE_KEY: <<>> or <<text>>
    saveEffectPending,\* the save effect is scheduled to run after the render
    clearedLast       \* the last handler that ran was a confirmed clearAllData

simVars == <<accounts, currentAge, retirementAge, investmentRate, savingsRate,
             withdrawalRate, pc, y, bs, bi, annualWithdrawal, rows>>
fvVars == <<fvArgs, fvRC, fvGP>>
gpVars == <<viewAge, gpPc, gpYear, projections>>
uiVars == <<storage, saveEffectPending, clearedLast>>
vars == <<simVars, fvVars, gpVars, uiVars>>

\* a result not computed yet is <<>>, a computed result v is <<v>>
None == <<>>

-----------------------------------------------------------------------------
(* Exact rational arithmetic: the model of the JavaScript number type.     *)

Abs(x) == IF x < 0 THEN -x ELSE x

RECURSIVE GCD(_, _)
GCD(a, b) == IF b = 0 THEN a ELSE GCD(b, a % b)

\* n/d in lowest terms, d > 0
Rat(n, d) ==
    LET g == GCD(Abs(n), Abs(d))
        s == IF d < 0 THEN -1 ELSE 1
    IN  [n |-> s * (n \div g), d |-> s * (d \div g)]

R(k) == [n |-> k, d |-> 1]
Zero == R(0)
One == R(1)

RNeg(a) == [n |-> -a.n, d |-> a.d]

RAdd(a, b) ==
    LET g == GCD(a.d, b.d)
    IN  Rat(a.n * (b.d \div g) + b.n * (a.d \div g), (a.d \div g) * b.d)

RSub(a, b) == RAdd(a, RNeg(b))

\* cross-cancelled before multiplying, so that intermediates stay small
RMul(a, b) ==
    IF a.n = 0 \/ b.n = 0 THEN Zero
    ELSE LET g1 == GCD(Abs(a.n), b.d)
             g2 == GCD(Abs(b.n), a.d)
         IN  [n |-> (a.n \div g1) * (b.n \div g2), d |-> (a.d \div g2) * (b.d \div g1)]

\* a / b for b # 0
RDiv(a, b) == RMul(a, Rat(b.d, b.n))

RLe(a, b) ==
    LET g == GCD(a.d, b.d)
    IN  a.n * (b.d \div g) <= b.n * (a.d \div g)

RLt(a, b) == ~RLe(b, a)

MathMin(a, b) == IF RLe(a, b) THEN a ELSE b
MathMax(a, b) == IF RLe(a, b) THEN b ELSE a

\* x >= 0 rounded to the nearest multiple of 1/scale
RoundTo(x, scale) ==
    LET s == RMul(x, R(scale))
    IN  Rat((2 * s.n + s.d) \div (2 * s.d), scale)

\* Math.pow's result is rounded to 1/PowScale; the repeated multiplication
\* that computes it carries two more digits, 1/PowGuard
PowScale == 10^4
PowGuard == 10^6

\* base^k for an integer k >= 0, by repeated multiplication (the previous
\* power is evaluated before it is multiplied)
RECURSIVE PowInt(_, _)
PowInt(base, k) ==
    IF k = 0 THEN One
    ELSE LET p == PowInt(base, k - 1)
         IN  IF p = Zero THEN Zero ELSE RoundTo(RMul(p, base), PowGuard)

\* Math.pow(base, exponent), for the arguments the model can represent:
\* base 1, or a non-negative integer exponent
MathPow(base, exponent) ==
    CASE base = One -> One
      [] base # One /\ exponent.d = 1 /\ exponent.n >= 0 ->
            RoundTo(PowInt(base, exponent.n), PowScale)

-----------------------------------------------------------------------------
(* The closed-form projector, in its two copies.                           *)

\* RetirementCalculator.tsx
calculateFutureValue(principalAmount, monthlyContribution, annualRate, years) ==
    IF RLe(years, Zero) THEN RAdd(principalAmount, RMul(monthlyContribution, R(12)))
    ELSE LET monthlyRate == RDiv(annualRate, R(12))
             months == RMul(years, R(12))
             futureValuePrincipal == RMul(principalAmount, MathPow(RAdd(One, annualRate), years))
             futureValueAnnuity ==
                 IF RLt(Zero, monthlyRate)
                 THEN RDiv(RMul(monthlyContribution,
                                RSub(MathPow(RAdd(One, monthlyRate), months), One)),
                           monthlyRate)
                 ELSE RMul(monthlyContribution, months)
         IN  RAdd(futureValuePrincipal, futureValueAnnuity)

\* mutant: the GrowthProjection copy takes RetirementCalculator's zero-year branch
calculateFutureValueGPAddsYear(principalAmount, monthlyContribution, annualRate, years) ==
    calculateFutureValue(principalAmount, monthlyContribution, annualRate, years)
\* GrowthProjection.tsx
calculateFutureValueGP(principalAmount, monthlyContribution, annualRate, years) ==
    IF RLe(years, Zero) THEN principalAmount
    ELSE LET monthlyRate == RDiv(annualRate, R(12))
             months == RMul(years, R(12))
             futureValuePrincipal == RMul(principalAmount, MathPow(RAdd(One, annualRate), years))
             futureValueAnnuity ==
                 IF RLt(Zero, monthlyRate)
                 THEN RDiv(RMul(monthlyContribution,
                                RSub(MathPow(RAdd(One, monthlyRate), months), One)),
                           monthlyRate)
                 ELSE RMul(monthlyContribution, months)
         IN  RAdd(futureValuePrincipal, futureValueAnnuity)


-----------------------------------------------------------------------------
(* The values RetirementCalculator derives from its state on every render. *)

RECURSIVE SumOf(_, _, _)
\* accs.filter(a => a.type === type).reduce((sum, a) => sum + a[field], 0)
SumOf(accs, type, field) ==
    IF accs = <<>> THEN 0
    ELSE (IF Head(accs).type = type THEN Head(accs)[field] ELSE 0)
         + SumOf(Tail(accs), type, field)

totalSavings == R(SumOf(accounts, "savings", "amount"))
totalInvestments == R(SumOf(accounts, "investment", "amount"))
total401k == R(SumOf(accounts, "401k", "amount"))
totalRothIRA == R(SumOf(accounts, "roth-ira", "amount"))

monthlyContributionsSavings == R(SumOf(accounts, "savings", "monthlyContribution"))
monthlyContributionsInvestment == R(SumOf(accounts, "investment", "monthlyContribution"))
monthlyContributions401k == R(SumOf(accounts, "401k", "monthlyContribution"))
monthlyContributionsRothIRA == R(SumOf(accounts, "roth-ira", "monthlyContribution"))

\* the growth bucket's principal and monthly contribution, as every call site sums them
growthPrincipal == RAdd(RAdd(totalInvestments, total401k), totalRothIRA)
growthMonthly ==
    RAdd(RAdd(monthlyContributionsInvestment, monthlyContributions401k),
         monthlyContributionsRothIRA)

yearsToRetirement == retirementAge - currentAge

investmentGrowthRate == RDiv(investmentRate, R(100))
savingsGrowthRate == RDiv(savingsRate, R(100))

projectedInvestmentValue ==
    calculateFutureValue(growthPrincipal, growthMonthly, investmentGrowthRate,
                         R(yearsToRetirement))

projectedSavings ==
    calculateFutureValue(totalSavings, monthlyContributionsSavings, savingsGrowthRate,
                         R(yearsToRetirement))

projectedTotal == RAdd(projectedInvestmentValue, projectedSavings)

-----------------------------------------------------------------------------
(* simulateYearly, one step per loop iteration.                            *)

endAge == 100
totalYears == endAge - currentAge

\* mutant: one month's contribution taken for a year's
annualContribSavingsOneMonth == monthlyContributionsSavings
annualContribSavings == RMul(monthlyContributionsSavings, R(12))
\* mutant: one month's contribution taken for a year's, in the growth bucket
annualContribInvestmentOneMonth == growthMonthly
annualContribInvestment == RMul(growthMonthly, R(12))

\* the model follows the loop for the first MaxYear + 1 iterations
MaxYear == 2

\* const blendedRate, from the balances at the start of the iteration
blendedRate ==
    LET startTotal == RAdd(bs, bi)
    IN  IF RLt(Zero, startTotal)
        THEN RAdd(RMul(RDiv(bs, startTotal), savingsGrowthRate),
                  RMul(RDiv(bi, startTotal), investmentGrowthRate))
        ELSE RDiv(RAdd(investmentGrowthRate, savingsGrowthRate), R(2))

\* mutant: the starting total is read after the contributions were added
RowBasisAfterContribution(startTotal, rate, contributions, payout, interestEarned, bsNew, biNew) ==
    [year |-> y,
     age |-> currentAge + y,
     returnPct |-> RMul(rate, R(100)),
     salaryBasis |-> RAdd(startTotal, contributions),
     annualContribution |-> contributions,
     employerMatch |-> Zero,
     retirementIncome |-> IF y > yearsToRetirement THEN annualWithdrawal ELSE Zero,
     payout |-> payout,
     interestEarned |-> interestEarned,
     balance |-> RAdd(bsNew, biNew)]
\* the object pushed at the end of an iteration
Row(startTotal, rate, contributions, payout, interestEarned, bsNew, biNew) ==
    [year |-> y,
     age |-> currentAge + y,
     returnPct |-> RMul(rate, R(100)),
     salaryBasis |-> startTotal,
     annualContribution |-> contributions,
     employerMatch |-> Zero,
     retirementIncome |-> IF y > yearsToRetirement THEN annualWithdrawal ELSE Zero,
     payout |-> payout,
     interestEarned |-> interestEarned,
     balance |-> RAdd(bsNew, biNew)]

\* mutant: the withdrawal is not clamped to the balance
WithdrawalUnclamped(startTotalBefore) == annualWithdrawal
\* mutant: the withdrawal is re-derived from the declining balance
WithdrawalOfCurrentBalance(startTotalBefore) ==
    MathMin(startTotalBefore, RMul(startTotalBefore, RDiv(withdrawalRate, R(100))))
\* mutant: Math.max in the place of Math.min
WithdrawalMaxSlip(startTotalBefore) == MathMax(startTotalBefore, annualWithdrawal)
\* the withdrawal of a post-retirement year
Withdrawal(startTotalBefore) == MathMin(startTotalBefore, annualWithdrawal)

\* mutant: the remainder is always split evenly
SavingsRatioEven(startTotalBefore) == Rat(1, 2)
\* the savings bucket's share of what is left after the withdrawal
SavingsRatio(startTotalBefore) ==
    IF RLt(Zero, startTotalBefore) THEN RDiv(bs, startTotalBefore) ELSE Rat(1, 2)

\* mutant: the full withdrawal is subtracted and nothing is floored
TotalAfterWithdrawalUnfloored(startTotalBefore) == RSub(startTotalBefore, annualWithdrawal)
\* what is left after the withdrawal, floored at 0
TotalAfterWithdrawal(startTotalBefore) ==
    MathMax(Zero, RSub(startTotalBefore, Withdrawal(startTotalBefore)))

\* mutant: the rate is subtracted
GrowSignSlip(balance, rate) == RMul(balance, RSub(One, rate))
\* a bucket's balance after a year's growth
Grow(balance, rate) == RMul(balance, RAdd(One, rate))

\* mutant: the last year is left out
LoopConditionStrict(year) == year < totalYears
\* the loop condition
LoopCondition(year) == year <= totalYears

\* mutant: the retirement year itself is a post-retirement year
IsPreRetirementStrict(year) == year < yearsToRetirement
\* the branch test of the loop body
IsPreRetirement(year) == year <= yearsToRetirement

\* entry of simulateYearly, up to the loop
SimulateYearlyBegin ==
    /\ pc = "start"
    /\ bs' = totalSavings
    /\ bi' = growthPrincipal
    /\ annualWithdrawal' = RMul(projectedTotal, RDiv(withdrawalRate, R(100)))
    /\ y' = 0
    /\ rows' = <<>>
    /\ pc' = "loop"
    /\ UNCHANGED <<accounts, currentAge, retirementAge, investmentRate, savingsRate,
                   withdrawalRate, fvVars, gpVars, uiVars>>

\* one iteration in the pre-retirement branch: add contributions, then grow
PreRetirementYear ==
    /\ pc = "loop"
    /\ LoopCondition(y)
    /\ y <= MaxYear
    /\ IsPreRetirement(y)
    /\ LET startTotal == RAdd(bs, bi)
           bsContrib == RAdd(bs, annualContribSavings)
           biContrib == RAdd(bi, annualContribInvestment)
           bsAfter == Grow(bsContrib, savingsGrowthRate)
           biAfter == Grow(biContrib, investmentGrowthRate)
           interestEarned == RAdd(RSub(bsAfter, bsContrib), RSub(biAfter, biContrib))
           contributions == RAdd(annualContribSavings, annualContribInvestment)
       IN  /\ bs' = bsAfter
           /\ bi' = biAfter
           /\ rows' = Append(rows, Row(startTotal, blendedRate, contributions, Zero,
                                       interestEarned, bsAfter, biAfter))
    /\ y' = y + 1
    /\ UNCHANGED <<accounts, currentAge, retirementAge, investmentRate, savingsRate,
                   withdrawalRate, pc, annualWithdrawal, fvVars, gpVars, uiVars>>

\* one iteration in the post-retirement branch: withdraw, then grow
PostRetirementYear ==
    /\ pc = "loop"
    /\ LoopCondition(y)
    /\ y <= MaxYear
    /\ ~IsPreRetirement(y)
    /\ LET startTotal == RAdd(bs, bi)
           startTotalBefore == RAdd(bs, bi)
           withdrawal == Withdrawal(startTotalBefore)
           totalAfterWithdrawal == TotalAfterWithdrawal(startTotalBefore)
           savingsRatio == SavingsRatio(startTotalBefore)
           bsPreGrow == RMul(totalAfterWithdrawal, savingsRatio)
           biPreGrow == RMul(totalAfterWithdrawal, RSub(One, savingsRatio))
           bsAfter == Grow(bsPreGrow, savingsGrowthRate)
           biAfter == Grow(biPreGrow, investmentGrowthRate)
           interestEarned == RAdd(RSub(bsAfter, bsPreGrow), RSub(biAfter, biPreGrow))
       IN  /\ bs' = bsAfter
           /\ bi' = biAfter
           /\ rows' = Append(rows, Row(startTotal, blendedRate, Zero, withdrawal,
                                       interestEarned, bsAfter, biAfter))
    /\ y' = y + 1
    /\ UNCHANGED <<accounts, currentAge, retirementAge, investmentRate, savingsRate,
                   withdrawalRate, pc, annualWithdrawal, fvVars, gpVars, uiVars>>

\* the loop condition fails: return rows
SimulateYearlyReturn ==
    /\ pc = "loop"
    /\ ~LoopCondition(y)
    /\ pc' = "done"
    /\ UNCHANGED <<accounts, currentAge, retirementAge, investmentRate, savingsRate,
                   withdrawalRate, y, bs, bi, annualWithdrawal, rows, fvVars, gpVars, uiVars>>

-----------------------------------------------------------------------------
(* The states a render can start from (specification Spec).                *)

Acct(t, a, m) == [type |-> t, amount |-> a, monthlyContribution |-> m]

SavingsAccounts == {Acct("savings", a, m) : a \in {0, 10000}, m \in {0, 100}}
GrowthAccounts ==
    {Acct("investment", 20000, 0), Acct("401k", 20000, 200), Acct("roth-ira", 0, 200)}

AccountLists ==
    {<<>>}
    \cup {<<a>> : a \in SavingsAccounts \cup GrowthAccounts}
    \cup {<<a, b>> : a \in SavingsAccounts, b \in GrowthAccounts}
    \cup {<<Acct("savings", 10000, 100), Acct("investment", 20000, 0),
            Acct("401k", 20000, 200), Acct("roth-ira", 0, 200)>>}

\* short series, followed to their end: the current age around endAge, the
\* retirement age around the current age
CurrentAges == {98, 99, 100, 101}
RetirementOffsets == -1 .. 2

SavingsRates == {R(0), R(2)}
InvestmentRates == {R(0), R(5)}
WithdrawalRates == {R(4), R(60)}

\* Both buckets hold or receive money and grow at different rates.  The
\* exact balances of such a state about double in length with every
\* post-retirement year (each is divided by the combined balance before it),
\* so these states are taken where the series has at most two rows and at
\* most one post-retirement year.
SplitsUnderTwoRates ==
    /\ savingsRate # investmentRate
    /\ RLt(Zero, RAdd(totalSavings, monthlyContributionsSavings))
    /\ RLt(Zero, RAdd(growthPrincipal, growthMonthly))

ShortSeries ==
    /\ accounts \in AccountLists
    /\ currentAge \in CurrentAges
    /\ retirementAge \in {currentAge + k : k \in RetirementOffsets}
    /\ investmentRate \in InvestmentRates
    /\ savingsRate \in SavingsRates
    /\ SplitsUnderTwoRates => currentAge >= 99 /\ retirementAge >= 99

\* a long series, followed for its first MaxYear + 1 rows: one savings
\* account of 10000 with 100 a month, 2% and 5%, age 30, retirement at 31
LongSeries ==
    /\ accounts = <<Acct("savings", 10000, 100)>>
    /\ currentAge = 30
    /\ retirementAge = 31
    /\ investmentRate = R(5)
    /\ savingsRate = R(2)

NoCall == [principal |-> Zero, monthly |-> Zero, rate |-> Zero, years |-> Zero]

\* generateProjections is not running
GPIdle ==
    /\ viewAge = retirementAge
    /\ gpPc = "idle"
    /\ gpYear = 0
    /\ projections = <<>>

\* nothing is stored and no effect is scheduled
UIIdle ==
    /\ storage = None
    /\ saveEffectPending = FALSE
    /\ clearedLast = FALSE

Init ==
    /\ ShortSeries \/ LongSeries
    /\ withdrawalRate \in WithdrawalRates
    /\ pc = "start"
    /\ y = 0
    /\ bs = Zero
    /\ bi = Zero
    /\ annualWithdrawal = Zero
    /\ rows = <<>>
    /\ fvArgs = NoCall
    /\ fvRC = None
    /\ fvGP = None
    /\ GPIdle
    /\ UIIdle

Next ==
    \/ SimulateYearlyBegin
    \/ PreRetirementYear
    \/ PostRetirementYear
    \/ SimulateYearlyReturn

Spec == Init /\ [][Next]_vars

-----------------------------------------------------------------------------
(* Stand-alone calls of the closed-form projector (specification SpecFV).  *)

\* years of the stand-alone calls: negative, zero, fractional and whole
MaxYears == 3
YearsDomain == {Rat(k, 2) : k \in -2 .. 2 * MaxYears}
PrincipalDomain == {R(0), R(1000), R(10000)}
MonthlyDomain == {R(0), R(100), R(250)}
\* annual rates as decimal fractions
RateDomain == {Rat(0, 100), Rat(2, 100), Rat(5, 100), Rat(12, 100)}

\* Math.pow with a fractional exponent is representable only for base 1
FVDomain ==
    {a \in [principal : PrincipalDomain, monthly : MonthlyDomain,
            rate : RateDomain, years : YearsDomain] :
        a.years.d = 1 \/ a.rate = Zero}

CallRetirementCalculator ==
    /\ fvRC = None
    /\ fvRC' = <<calculateFutureValue(fvArgs.principal, fvArgs.monthly, fvArgs.rate, fvArgs.years)>>
    /\ UNCHANGED <<simVars, fvArgs, fvGP, gpVars, uiVars>>

CallGrowthProjection ==
    /\ fvGP = None
    /\ fvGP' = <<calculateFutureValueGP(fvArgs.principal, fvArgs.monthly, fvArgs.rate, fvArgs.years)>>
    /\ UNCHANGED <<simVars, fvArgs, fvRC, gpVars, uiVars>>

SimIdle ==
    /\ accounts = <<>>
    /\ currentAge = 30
    /\ retirementAge = 65
    /\ investmentRate = R(5)
    /\ savingsRate = R(2)
    /\ withdrawalRate = R(4)
    /\ pc = "idle"
    /\ y = 0
    /\ bs = Zero
    /\ bi = Zero
    /\ annualWithdrawal = Zero
    /\ rows = <<>>

InitFV ==
    /\ SimIdle
    /\ fvArgs \in FVDomain
    /\ fvRC = None
    /\ fvGP = None
    /\ GPIdle
    /\ UIIdle

NextFV == CallRetirementCalculator \/ CallGrowthProjection

SpecFV == InitFV /\ [][NextFV]_vars

-----------------------------------------------------------------------------
(* GrowthProjection's generateProjections (specification SpecGP).          *)
(*                                                                         *)
(* Its divisions are not guarded, so its numbers are the rationals with    *)
(* the three non-finite values of a JavaScript number: NaN, Infinity and   *)
(* -Infinity, written with denominator 0.  (The sign of a zero is not      *)
(* modelled.)                                                              *)

NaN == [n |-> 0, d |-> 0]
Infinity == [n |-> 1, d |-> 0]
NegInfinity == [n |-> -1, d |-> 0]

IsFinite(x) == x.d # 0
Sign(k) == IF k < 0 THEN -1 ELSE IF k = 0 THEN 0 ELSE 1

\* a + b
FAdd(a, b) ==
    IF IsFinite(a) /\ IsFinite(b) THEN RAdd(a, b)
    ELSE IF a = NaN \/ b = NaN THEN NaN
    ELSE IF IsFinite(a) THEN b
    ELSE IF IsFinite(b) THEN a
    ELSE IF a = b THEN a ELSE NaN

\* a - b
FSub(a, b) == FAdd(a, RNeg(b))

\* a * b
FMul(a, b) ==
    IF IsFinite(a) /\ IsFinite(b) THEN RMul(a, b)
    ELSE IF a = NaN \/ b = NaN \/ a = Zero \/ b = Zero THEN NaN
    ELSE [n |-> Sign(a.n) * Sign(b.n), d |-> 0]

\* a / b
FDiv(a, b) ==
    IF a = NaN \/ b = NaN THEN NaN
    ELSE IF IsFinite(a) /\ IsFinite(b)
         THEN IF b.n # 0 THEN RDiv(a, b)
              ELSE IF a.n = 0 THEN NaN ELSE [n |-> Sign(a.n), d |-> 0]
    ELSE IF IsFinite(a) THEN Zero
    ELSE IF IsFinite(b) THEN [n |-> Sign(a.n) * (IF b.n < 0 THEN -1 ELSE 1), d |-> 0]
    ELSE NaN

\* a <= b, false when either is NaN
FLe(a, b) ==
    IF a = NaN \/ b = NaN THEN FALSE
    ELSE IF IsFinite(a) /\ IsFinite(b) THEN RLe(a, b)
    ELSE a = NegInfinity \/ b = Infinity

\* Math.max(a, b)
FMax(a, b) == IF a = NaN \/ b = NaN THEN NaN ELSE IF FLe(a, b) THEN b ELSE a

\* Math.round(x): the nearest integer, halves upward
MathRound(x) ==
    IF IsFinite(x)
    THEN R((x.n \div x.d) + (IF 2 * (x.n % x.d) >= x.d THEN 1 ELSE 0))
    ELSE x

\* x || fallback, for a number x: 0 and NaN are falsy
OrElse(x, fallback) == IF x = NaN \/ x = Zero THEN fallback ELSE x

\* const maxAge = Math.max(viewAge, retirementAge) + 1
maxAge == (IF viewAge >= retirementAge THEN viewAge ELSE retirementAge) + 1

\* the model follows the loop for the first MaxPoint + 1 iterations
MaxPoint == 3

\* the object pushed at the end of an iteration
Point(savings, investments, total) ==
    [year |-> gpYear,
     age |-> currentAge + gpYear,
     savings |-> MathRound(savings),
     investments |-> MathRound(investments),
     total |-> MathRound(total)]

\* entry of generateProjections, up to the loop
GenerateProjectionsBegin ==
    /\ gpPc = "start"
    /\ projections' = <<>>
    /\ gpYear' = 0
    /\ gpPc' = "loop"
    /\ UNCHANGED <<simVars, fvVars, viewAge, uiVars>>

\* one iteration in the pre-retirement branch: the closed form at this year
PreRetirementPoint ==
    /\ gpPc = "loop"
    /\ gpYear <= maxAge
    /\ gpYear <= MaxPoint
    /\ gpYear <= yearsToRetirement
    /\ LET savingsAtYear ==
               calculateFutureValueGP(totalSavings, monthlyContributionsSavings,
                                      savingsGrowthRate, R(gpYear))
           investmentsAtYear ==
               calculateFutureValueGP(growthPrincipal, growthMonthly,
                                      investmentGrowthRate, R(gpYear))
       IN  projections' =
               Append(projections,
                      Point(savingsAtYear, investmentsAtYear,
                            RAdd(savingsAtYear, investmentsAtYear)))
    /\ gpYear' = gpYear + 1
    /\ UNCHANGED <<simVars, fvVars, viewAge, gpPc, uiVars>>

\* one iteration in the post-retirement branch, from the previous point:
\* withdraw, floor at 0, grow at the blended rate, split
PostRetirementPoint ==
    /\ gpPc = "loop"
    /\ gpYear <= maxAge
    /\ gpYear <= MaxPoint
    /\ gpYear > yearsToRetirement
    /\ projections # <<>>
    /\ LET previousYear == projections[Len(projections)]
           withdrawalOfYear == RMul(projectedTotal, RDiv(withdrawalRate, R(100)))
           floored == FMax(Zero, FSub(previousYear.total, withdrawalOfYear))
           blended ==
               FAdd(FMul(FDiv(previousYear.savings, previousYear.total), savingsGrowthRate),
                    FMul(FDiv(previousYear.investments, previousYear.total),
                         investmentGrowthRate))
           balance == FMul(floored, FAdd(One, blended))
           ratio == OrElse(FDiv(previousYear.savings, previousYear.total), Rat(1, 2))
       IN  projections' =
               Append(projections,
                      Point(FMul(balance, ratio), FMul(balance, FSub(One, ratio)), balance))
    /\ gpYear' = gpYear + 1
    /\ UNCHANGED <<simVars, fvVars, viewAge, gpPc, uiVars>>

\* the post-retirement branch with no previous point: previousYear is
\* undefined and reading previousYear.total throws a TypeError
PostRetirementThrow ==
    /\ gpPc = "loop"
    /\ gpYear <= maxAge
    /\ gpYear > yearsToRetirement
    /\ projections = <<>>
    /\ gpPc' = "TypeError"
    /\ UNCHANGED <<simVars, fvVars, viewAge, gpYear, projections, uiVars>>

\* the loop condition fails: return projections
GenerateProjectionsReturn ==
    /\ gpPc = "loop"
    /\ ~(gpYear <= maxAge)
    /\ gpPc' = "done"
    /\ UNCHANGED <<simVars, fvVars, viewAge, gpYear, projections, uiVars>>

\* simulateYearly is not running
SimulateYearlyIdle ==
    /\ pc = "idle"
    /\ y = 0
    /\ bs = Zero
    /\ bi = Zero
    /\ annualWithdrawal = Zero
    /\ rows = <<>>

\* no stand-alone call of calculateFutureValue
FVIdle ==
    /\ fvArgs = NoCall
    /\ fvRC = None
    /\ fvGP = None

\* The accounts and rates of the GrowthProjection renders.  A post-retirement
\* point divides by the previous point's total twice, so the exact values stay
\* within the checker's integers for small amounts at rate 0, and under
\* positive rates for a savings account whose closed form is a whole number.
GPAccountLists ==
    {<<>>,
     <<Acct("savings", 1, 100)>>,
     <<Acct("savings", 40, 1)>>,
     <<Acct("401k", 80, 2)>>,
     <<Acct("savings", 40, 1), Acct("401k", 80, 2)>>}

GPRates ==
    \/ /\ savingsRate = R(0)
       /\ investmentRate = R(0)
       /\ accounts \in GPAccountLists
    \/ /\ savingsRate = R(2)
       /\ investmentRate = R(5)
       /\ accounts \in {<<>>, <<Acct("savings", 10000, 100)>>}

\* withdrawal rates of the slider
GPWithdrawalRates == {R(4), R(8)}

\* series followed to their end: ages as small as loadInitialState lets them
\* be, the view age at the retirement age
GPShortSeries ==
    /\ currentAge \in 1 .. 3
    /\ retirementAge \in 1 .. 2
    /\ viewAge = retirementAge

\* series of ages the sliders give, followed for their first MaxPoint + 1
\* points
GPLongSeries ==
    /\ currentAge \in {32, 33, 80}
    /\ retirementAge \in {32, 33, 34}
    /\ viewAge \in {retirementAge, 100}

InitGP ==
    /\ GPRates
    /\ GPShortSeries \/ GPLongSeries
    /\ withdrawalRate \in GPWithdrawalRates
    /\ gpPc = "start"
    /\ gpYear = 0
    /\ projections = <<>>
    /\ SimulateYearlyIdle
    /\ FVIdle
    /\ UIIdle

NextGP ==
    \/ GenerateProjectionsBegin
    \/ PreRetirementPoint
    \/ PostRetirementPoint
    \/ PostRetirementThrow
    \/ GenerateProjectionsReturn

SpecGP == InitGP /\ [][NextGP]_vars

-----------------------------------------------------------------------------
(* The component's state, its handlers and localStorage (specification     *)
(* SpecUI).  An account is the record of the three fields the projections  *)
(* read; its id and name are strings the handlers only copy, and an        *)
(* account is picked by its position where the code picks it by its id.    *)

\* JSON text of a number: its decimal digits, one character each
DigitChars == <<"0", "1", "2", "3", "4", "5", "6", "7", "8", "9">>

RECURSIVE Digits(_)
\* the digits of an integer k >= 0
Digits(k) ==
    IF k < 10 THEN <<DigitChars[k + 1]>> ELSE Append(Digits(k \div 10), DigitChars[(k % 10) + 1])

RECURSIVE FractionDigits(_)
\* the digits after the point of a number 0 <= x < 1 with a finite expansion
FractionDigits(x) ==
    IF x = Zero THEN <<>>
    ELSE LET t == RMul(x, R(10))
             k == t.n \div t.d
         IN  <<DigitChars[k + 1]>> \o FractionDigits(RSub(t, R(k)))

\* JSON.stringify of a number x >= 0 with a finite decimal expansion
StringifyNumber(x) ==
    LET whole == x.n \div x.d
        rest == RSub(x, R(whole))
    IN  Digits(whole) \o (IF rest = Zero THEN <<>> ELSE <<".">> \o FractionDigits(rest))

\* the value of a digit character
DigitValue(c) == CHOOSE k \in 0 .. 9 : DigitChars[k + 1] = c

RECURSIVE ParseDigits(_)
\* the integer a sequence of digit characters spells
ParseDigits(t) ==
    IF t = <<>> THEN 0
    ELSE 10 * ParseDigits(SubSeq(t, 1, Len(t) - 1)) + DigitValue(t[Len(t)])

\* JSON.parse of a number's text
ParseNumber(t) ==
    IF \E i \in 1 .. Len(t) : t[i] = "."
    THEN LET dot == CHOOSE i \in 1 .. Len(t) : t[i] = "."
             fraction == SubSeq(t, dot + 1, Len(t))
         IN  RAdd(R(ParseDigits(SubSeq(t, 1, dot - 1))),
                  Rat(ParseDigits(fraction), 10 ^ Len(fraction)))
    ELSE R(ParseDigits(t))

\* JSON.stringify(dataToSave)
JSONStringify(data) ==
    [accounts |->
         [i \in 1 .. Len(data.accounts) |->
              [type |-> data.accounts[i].type,
               amount |-> StringifyNumber(R(data.accounts[i].amount)),
               monthlyContribution |->
                   StringifyNumber(R(data.accounts[i].monthlyContribution))]],
     currentAge |-> StringifyNumber(R(data.currentAge)),
     retirementAge |-> StringifyNumber(R(data.retirementAge)),
     investmentRate |-> StringifyNumber(data.investmentRate),
     savingsRate |-> StringifyNumber(data.savingsRate),
     withdrawalRate |-> StringifyNumber(data.withdrawalRate)]

\* JSON.parse(savedData)
JSONParse(text) ==
    [accounts |->
         [i \in 1 .. Len(text.accounts) |->
              [type |-> text.accounts[i].type,
               amount |-> ParseNumber(text.accounts[i].amount).n,
               monthlyContribution |-> ParseNumber(text.accounts[i].monthlyContribution).n]],
     currentAge |-> ParseNumber(text.currentAge).n,
     retirementAge |-> ParseNumber(text.retirementAge).n,
     investmentRate |-> ParseNumber(text.investmentRate),
     savingsRate |-> ParseNumber(text.savingsRate),
     withdrawalRate |-> ParseNumber(text.withdrawalRate)]

\* the state the component starts from when nothing usable is stored
DefaultState ==
    [accounts |-> <<>>, currentAge |-> 30, retirementAge |-> 65,
     investmentRate |-> R(5), savingsRate |-> R(2), withdrawalRate |-> R(4)]

\* loadInitialState: the stored data, each field || its default (a number
\* that is 0 is falsy, an array never is)
loadInitialState ==
    IF storage = None THEN DefaultState
    ELSE LET parsed == JSONParse(storage[1])
         IN  [accounts |-> parsed.accounts,
              currentAge |-> IF parsed.currentAge = 0 THEN 30 ELSE parsed.currentAge,
              retirementAge |-> IF parsed.retirementAge = 0 THEN 65 ELSE parsed.retirementAge,
              investmentRate |->
                  IF parsed.investmentRate = Zero THEN R(5) ELSE parsed.investmentRate,
              savingsRate |-> IF parsed.savingsRate = Zero THEN R(2) ELSE parsed.savingsRate,
              withdrawalRate |->
                  IF parsed.withdrawalRate = Zero THEN R(4) ELSE parsed.withdrawalRate]

\* const dataToSave of the save effect
dataToSave ==
    [accounts |-> accounts, currentAge |-> currentAge, retirementAge |-> retirementAge,
     investmentRate |-> investmentRate, savingsRate |-> savingsRate,
     withdrawalRate |-> withdrawalRate]

\* no projection is being computed
EngineIdle ==
    /\ SimulateYearlyIdle
    /\ FVIdle
    /\ gpPc = "idle"
    /\ gpYear = 0
    /\ projections = <<>>

engineVars == <<pc, y, bs, bi, annualWithdrawal, rows, fvVars, gpPc, gpYear, projections>>

\* values of the controls
MaxAccounts == 2
NewAccounts == {Acct("savings", 10000, 100), Acct("401k", 20000, 200)}
CurrentAgeSlider == {18, 30}
RetirementAgeSlider == {32, 65}
InvestmentRateSlider == {R(0), R(5), R(12)}
SavingsRateSlider == {R(0), R(2)}
WithdrawalRateSlider == {R(1), R(4), Rat(9, 2)}

\* The save effect (useEffect over accounts, ages and rates) runs after the
\* render that follows a change of one of them, and before the next handler.
SaveEffect ==
    /\ saveEffectPending
    /\ storage' = <<JSONStringify(dataToSave)>>
    /\ saveEffectPending' = FALSE
    /\ UNCHANGED <<accounts, currentAge, retirementAge, investmentRate, savingsRate,
                   withdrawalRate, viewAge, clearedLast, engineVars>>

\* the page is loaded: the state is loadInitialState(), the effects run after
\* the first render
Mount ==
    /\ ~saveEffectPending
    /\ accounts' = loadInitialState.accounts
    /\ currentAge' = loadInitialState.currentAge
    /\ retirementAge' = loadInitialState.retirementAge
    /\ investmentRate' = loadInitialState.investmentRate
    /\ savingsRate' = loadInitialState.savingsRate
    /\ withdrawalRate' = loadInitialState.withdrawalRate
    /\ viewAge' = loadInitialState.retirementAge
    /\ saveEffectPending' = TRUE
    /\ clearedLast' = FALSE
    /\ UNCHANGED <<storage, engineVars>>

\* onChange of the current-age slider; a set to the same value schedules nothing
SetCurrentAge(v) ==
    /\ ~saveEffectPending
    /\ currentAge' = v
    /\ saveEffectPending' = (v # currentAge)
    /\ clearedLast' = FALSE
    /\ UNCHANGED <<accounts, retirementAge, investmentRate, savingsRate, withdrawalRate,
                   viewAge, storage, engineVars>>

\* onChange of the retirement-age slider, with the effect that sets viewAge
SetRetirementAge(v) ==
    /\ ~saveEffectPending
    /\ retirementAge' = v
    /\ viewAge' = IF v # retirementAge THEN v ELSE viewAge
    /\ saveEffectPending' = (v # retirementAge)
    /\ clearedLast' = FALSE
    /\ UNCHANGED <<accounts, currentAge, investmentRate, savingsRate, withdrawalRate,
                   storage, engineVars>>

SetInvestmentRate(v) ==
    /\ ~saveEffectPending
    /\ investmentRate' = v
    /\ saveEffectPending' = (v # investmentRate)
    /\ clearedLast' = FALSE
    /\ UNCHANGED <<accounts, currentAge, retirementAge, savingsRate, withdrawalRate,
                   viewAge, storage, engineVars>>

SetSavingsRate(v) ==
    /\ ~saveEffectPending
    /\ savingsRate' = v
    /\ saveEffectPending' = (v # savingsRate)
    /\ clearedLast' = FALSE
    /\ UNCHANGED <<accounts, currentAge, retirementAge, investmentRate, withdrawalRate,
                   viewAge, storage, engineVars>>

SetWithdrawalRate(v) ==
    /\ ~saveEffectPending
    /\ withdrawalRate' = v
    /\ saveEffectPending' = (v # withdrawalRate)
    /\ clearedLast' = FALSE
    /\ UNCHANGED <<accounts, currentAge, retirementAge, investmentRate, savingsRate,
                   viewAge, storage, engineVars>>

\* onViewAgeChange, from GrowthProjection's slider; viewAge is not saved
SetViewAge(v) ==
    /\ ~saveEffectPending
    /\ viewAge' = v
    /\ clearedLast' = FALSE
    /\ UNCHANGED <<accounts, currentAge, retirementAge, investmentRate, savingsRate,
                   withdrawalRate, storage, saveEffectPending, engineVars>>

\* addAccount: a new array, so the save effect is scheduled
addAccount(account) ==
    /\ ~saveEffectPending
    /\ Len(accounts) < MaxAccounts
    /\ accounts' = Append(accounts, account)
    /\ saveEffectPending' = TRUE
    /\ clearedLast' = FALSE
    /\ UNCHANGED <<currentAge, retirementAge, investmentRate, savingsRate, withdrawalRate,
                   viewAge, storage, engineVars>>

\* deleteAccount, of the account at position i
deleteAccount(i) ==
    /\ ~saveEffectPending
    /\ accounts' = SubSeq(accounts, 1, i - 1) \o SubSeq(accounts, i + 1, Len(accounts))
    /\ saveEffectPending' = TRUE
    /\ clearedLast' = FALSE
    /\ UNCHANGED <<currentAge, retirementAge, investmentRate, savingsRate, withdrawalRate,
                   viewAge, storage, engineVars>>

\* updateAccount, of the amount of the account at position i
updateAccount(i, amount) ==
    /\ ~saveEffectPending
    /\ accounts' = [accounts EXCEPT ![i].amount = amount]
    /\ saveEffectPending' = TRUE
    /\ clearedLast' = FALSE
    /\ UNCHANGED <<currentAge, retirementAge, investmentRate, savingsRate, withdrawalRate,
                   viewAge, storage, engineVars>>

\* clearAllData with window.confirm answered yes: four sets, then removeItem;
\* setAccounts([]) passes a new array, so a render and the save effect follow
ClearAllDataConfirmed ==
    /\ ~saveEffectPending
    /\ accounts' = <<>>
    /\ retirementAge' = 65
    /\ viewAge' = IF retirementAge # 65 THEN 65 ELSE viewAge
    /\ investmentRate' = R(5)
    /\ savingsRate' = R(2)
    /\ storage' = None
    /\ saveEffectPending' = TRUE
    /\ clearedLast' = TRUE
    /\ UNCHANGED <<currentAge, withdrawalRate, engineVars>>

\* clearAllData with window.confirm answered no
ClearAllDataDeclined ==
    /\ ~saveEffectPending
    /\ clearedLast' = FALSE
    /\ UNCHANGED <<accounts, currentAge, retirementAge, investmentRate, savingsRate,
                   withdrawalRate, viewAge, storage, saveEffectPending, engineVars>>

\* the first load, with nothing stored
InitUI ==
    /\ storage = None
    /\ accounts = DefaultState.accounts
    /\ currentAge = DefaultState.currentAge
    /\ retirementAge = DefaultState.retirementAge
    /\ investmentRate = DefaultState.investmentRate
    /\ savingsRate = DefaultState.savingsRate
    /\ withdrawalRate = DefaultState.withdrawalRate
    /\ viewAge = DefaultState.retirementAge
    /\ saveEffectPending = TRUE
    /\ clearedLast = FALSE
    /\ EngineIdle

NextUI ==
    \/ SaveEffect
    \/ Mount
    \/ \E v \in CurrentAgeSlider : SetCurrentAge(v)
    \/ \E v \in RetirementAgeSlider : SetRetirementAge(v)
    \/ \E v \in InvestmentRateSlider : SetInvestmentRate(v)
    \/ \E v \in SavingsRateSlider : SetSavingsRate(v)
    \/ \E v \in WithdrawalRateSlider : SetWithdrawalRate(v)
    \/ \E v \in {retirementAge, 100} : SetViewAge(v)
    \/ \E a \in NewAccounts : addAccount(a)
    \/ \E i \in 1 .. Len(accounts) : deleteAccount(i)
    \/ \E i \in 1 .. Len(accounts) : updateAccount(i, 0)
    \/ ClearAllDataConfirmed
    \/ ClearAllDataDeclined

SpecUI == InitUI /\ [][NextUI]_vars

-----------------------------------------------------------------------------
(* Properties.                                                             *)

\* the combined balance immediately before row i's transition
PreBalance(i) == IF i = 1 THEN RAdd(totalSavings, growthPrincipal) ELSE rows[i - 1].balance

\* row i is a post-retirement (decumulation) row
IsPostRetirementRow(i) == rows[i].year > yearsToRetirement

\* the results the stand-alone call has produced so far
FVResults == {r[1] : r \in {fvRC, fvGP} \ {None}}

\* C1 (as claimed): with years = 0, calculateFutureValue returns exactly the
\* principal, in both implementations.
C1_ZeroYearsReturnsPrincipal ==
    fvArgs.years = Zero => \A v \in FVResults : v = fvArgs.principal

\* the inputs of scenario A
ScenarioA ==
    /\ accounts = <<Acct("savings", 10000, 100)>>
    /\ currentAge = 30
    /\ retirementAge = 31
    /\ savingsRate = R(2)
    /\ investmentRate = R(5)

\* C2 (as claimed): in scenario A the row with year = 1 has balance
\* (10000 + 1200) * 1.02 = 11424.
C2_YearOneIsOneYear ==
    (ScenarioA /\ Len(rows) >= 2) =>
        \E i \in 1 .. Len(rows) : rows[i].year = 1 /\ rows[i].balance = R(11424)

\* C2 (amended): in scenario A the row with year = 0 has balance
\* (10000 + 1200) * 1.02 = 11424 and the row with year = 1 has balance
\* (11424 + 1200) * 1.02 = 12876.48: the row at year offset y reflects
\* y + 1 years of contribution-then-growth.
C2_YearOneIsTwoYears ==
    ScenarioA =>
        /\ Len(rows) >= 1 => rows[1].year = 0 /\ rows[1].balance = R(11424)
        /\ Len(rows) >= 2 => rows[2].year = 1 /\ rows[2].balance = Rat(1287648, 100)

C2_Witness == ScenarioA /\ Len(rows) >= 2 /\ rows[2].year = 1

\* C3 (as claimed): when the retirement age equals the current age, with a
\* positive annual withdrawal and a nonzero combined principal, row[0] is a
\* decumulation row: contribution 0, payout min(combined principal, annual
\* withdrawal).
C3_RowZeroDecumulates ==
    (/\ yearsToRetirement = 0
     /\ Len(rows) >= 1
     /\ RLt(Zero, annualWithdrawal)
     /\ RLt(Zero, PreBalance(1))) =>
        /\ rows[1].annualContribution = Zero
        /\ rows[1].payout = MathMin(PreBalance(1), annualWithdrawal)

\* C3 (amended): when the retirement age equals the current age, row[0] is an
\* accumulation row (a year's contributions, payout 0) and row[1] is the first
\* decumulation row (contribution 0, payout min(combined balance before it,
\* annual withdrawal)); when the retirement age is below the current age, every
\* row is a decumulation row.
C3_RowZeroAccumulates ==
    /\ (yearsToRetirement = 0 /\ Len(rows) >= 1) =>
          /\ rows[1].annualContribution = RAdd(annualContribSavings, annualContribInvestment)
          /\ rows[1].payout = Zero
    /\ (yearsToRetirement = 0 /\ Len(rows) >= 2) =>
          /\ rows[2].annualContribution = Zero
          /\ rows[2].payout = MathMin(PreBalance(2), annualWithdrawal)
    /\ yearsToRetirement < 0 =>
          \A i \in 1 .. Len(rows) :
              /\ rows[i].annualContribution = Zero
              /\ rows[i].payout = MathMin(PreBalance(i), annualWithdrawal)

C3_Witness ==
    /\ yearsToRetirement = 0
    /\ Len(rows) >= 2
    /\ RLt(Zero, PreBalance(1))
    /\ RLt(Zero, rows[1].annualContribution)
    /\ RLt(Zero, rows[2].payout)

\* C4: both running bucket balances and every row's balance are >= 0.
C4_BalancesNonNegative ==
    /\ RLe(Zero, bs)
    /\ RLe(Zero, bi)
    /\ \A i \in 1 .. Len(rows) : RLe(Zero, rows[i].balance)

\* a withdrawal larger than a positive balance has emptied it
C4_Witness ==
    \E i \in 1 .. Len(rows) :
        /\ IsPostRetirementRow(i)
        /\ RLt(Zero, PreBalance(i))
        /\ RLt(PreBalance(i), annualWithdrawal)
        /\ rows[i].balance = Zero

\* C5: in every decumulation row the payout is at most the combined balance
\* immediately before that row's withdrawal.
C5_PayoutWithinBalance ==
    \A i \in 1 .. Len(rows) : IsPostRetirementRow(i) => RLe(rows[i].payout, PreBalance(i))

\* a decumulation row whose payout was clamped to a positive balance
C5_Witness ==
    \E i \in 1 .. Len(rows) :
        /\ IsPostRetirementRow(i)
        /\ RLt(Zero, rows[i].payout)
        /\ RLt(rows[i].payout, annualWithdrawal)
        /\ rows[i].payout = PreBalance(i)

\* the annual withdrawal as the claim sizes it
SizedWithdrawal == RDiv(RMul(projectedTotal, withdrawalRate), R(100))

\* C6: every decumulation row whose pre-withdrawal combined balance is at
\* least projectedTotal * withdrawalRate / 100 pays out exactly that amount.
C6_FixedWithdrawal ==
    \A i \in 1 .. Len(rows) :
        (IsPostRetirementRow(i) /\ RLe(SizedWithdrawal, PreBalance(i))) =>
            rows[i].payout = SizedWithdrawal

\* two unclamped payouts of one series, the second from a smaller balance
C6_Witness ==
    \E i, j \in 1 .. Len(rows) :
        /\ i < j
        /\ IsPostRetirementRow(i)
        /\ RLt(Zero, SizedWithdrawal)
        /\ RLe(SizedWithdrawal, PreBalance(j))
        /\ RLt(PreBalance(j), PreBalance(i))
        /\ rows[i].payout = rows[j].payout

\* C7: one row for every year offset from 0 to endAge - currentAge, in order,
\* with year = n and age = currentAge + n.
C7_OneRowPerYear ==
    /\ \A i \in 1 .. Len(rows) :
          rows[i].year = i - 1 /\ rows[i].age = currentAge + (i - 1)
    /\ pc = "loop" => Len(rows) = y
    /\ pc = "done" => Len(rows) = IF endAge >= currentAge THEN endAge - currentAge + 1 ELSE 0

C7_Witness == pc = "done" /\ Len(rows) = 3

\* C8: in the accumulation phase a row's balance is at least the previous
\* row's.
C8_AccumulationMonotone ==
    \A i \in 2 .. Len(rows) :
        rows[i].year <= yearsToRetirement => RLe(rows[i - 1].balance, rows[i].balance)

C8_Witness ==
    \E i \in 2 .. Len(rows) :
        /\ rows[i].year <= yearsToRetirement
        /\ RLt(rows[i - 1].balance, rows[i].balance)

\* C9 (as claimed): the two bucket balances behind row[yearsToRetirement],
\* each passed to calculateFutureValue with years = 0, sum to that row's
\* balance.
C9_RoundTripAtHorizon ==
    (yearsToRetirement >= 0 /\ Len(rows) = yearsToRetirement + 1) =>
        RAdd(calculateFutureValue(bs, monthlyContributionsSavings, savingsGrowthRate, Zero),
             calculateFutureValue(bi, growthMonthly, investmentGrowthRate, Zero))
            = rows[Len(rows)].balance

\* C10 (as claimed): with rate 0 and years >= 0, calculateFutureValue returns
\* principal + monthly * years * 12, in both implementations.
C10_ZeroRateIsLinear ==
    (fvArgs.rate = Zero /\ RLe(Zero, fvArgs.years)) =>
        \A v \in FVResults :
            v = RAdd(fvArgs.principal, RMul(RMul(fvArgs.monthly, fvArgs.years), R(12)))

\* C11 (as claimed): calculateFutureValue is non-decreasing in years, in both
\* implementations: the result at the years of the call is at most the result
\* at any later years, for years at or below 0, between 0 and 1, and above.
C11_MonotoneInYears ==
    \A b \in YearsDomain :
        (RLe(fvArgs.years, b) /\ (b.d = 1 \/ fvArgs.rate = Zero)) =>
            /\ fvRC # None =>
                  RLe(fvRC[1],
                      calculateFutureValue(fvArgs.principal, fvArgs.monthly, fvArgs.rate, b))
            /\ fvGP # None =>
                  RLe(fvGP[1],
                      calculateFutureValueGP(fvArgs.principal, fvArgs.monthly, fvArgs.rate, b))

\* C16: the two implementations return the same value for years > 0, and for
\* years <= 0 RetirementCalculator's result is GrowthProjection's plus
\* monthly * 12.
C16_CopiesDifferAtZeroYears ==
    (fvRC # None /\ fvGP # None) =>
        IF RLt(Zero, fvArgs.years)
        THEN fvRC[1] = fvGP[1]
        ELSE fvRC[1] = RAdd(fvGP[1], RMul(fvArgs.monthly, R(12)))

\* both copies called with zero years and a positive monthly contribution
C16_Witness ==
    /\ fvRC # None
    /\ fvGP # None
    /\ fvArgs.years = Zero
    /\ RLt(Zero, fvArgs.monthly)
    /\ fvRC[1] # fvGP[1]

\* C12: in every decumulation step the two pre-growth shares (each bucket's
\* new balance with its year of growth taken off) sum to the remainder, the
\* pre-withdrawal combined balance minus the payout, and the savings share
\* stands to the remainder as the savings balance stood to the combined
\* balance before the withdrawal; from a combined balance of 0 both shares
\* are half the remainder.
C12_ProportionalSplit ==
    [][(/\ pc = "loop"
        /\ Len(rows') = Len(rows) + 1
        /\ rows'[Len(rows')].year > yearsToRetirement) =>
           LET before == RAdd(bs, bi)
               remainder == RSub(before, rows'[Len(rows')].payout)
               bsShare == RDiv(bs', RAdd(One, savingsGrowthRate))
               biShare == RDiv(bi', RAdd(One, investmentGrowthRate))
           IN  /\ RAdd(bsShare, biShare) = remainder
               /\ RLt(Zero, before) => bsShare = RMul(remainder, RDiv(bs, before))
               /\ before = Zero =>
                     /\ bsShare = RMul(remainder, Rat(1, 2))
                     /\ biShare = RMul(remainder, Rat(1, 2))]_vars

\* a decumulation row has just split a positive remainder unevenly
C12_Witness ==
    /\ Len(rows) >= 1
    /\ pc = "loop"
    /\ IsPostRetirementRow(Len(rows))
    /\ RLt(rows[Len(rows)].payout, PreBalance(Len(rows)))
    /\ RLt(Zero, bs)
    /\ RLt(Zero, bi)
    /\ bs # bi

\* C13: every row with year <= years to retirement has payout 0 and
\* contribution 12 * (savings monthly + growth monthly); every row with
\* year > years to retirement has contribution 0 and payout the clamped
\* withdrawal; no accumulation row follows a decumulation row.
C13_PhaseFields ==
    \A i \in 1 .. Len(rows) :
        /\ rows[i].year <= yearsToRetirement =>
              /\ rows[i].payout = Zero
              /\ rows[i].annualContribution =
                     RMul(R(12), RAdd(monthlyContributionsSavings, growthMonthly))
        /\ rows[i].year > yearsToRetirement =>
              /\ rows[i].annualContribution = Zero
              /\ rows[i].payout = MathMin(PreBalance(i), annualWithdrawal)
              /\ \A j \in i .. Len(rows) :
                    /\ rows[j].year > yearsToRetirement
                    /\ rows[j].annualContribution = Zero

\* an accumulation row with contributions to both buckets, then two paying
\* decumulation rows
C13_Witness ==
    /\ Len(rows) >= 3
    /\ rows[1].year <= yearsToRetirement
    /\ RLt(Zero, monthlyContributionsSavings)
    /\ RLt(Zero, growthMonthly)
    /\ IsPostRetirementRow(2)
    /\ RLt(Zero, rows[2].payout)
    /\ RLt(Zero, rows[3].payout)

\* C17: every row's balance is its starting total plus its contribution minus
\* its payout plus its interest, and its starting total is the previous row's
\* balance (the sum of the two principals for the first row).
C17_AccountingIdentity ==
    \A i \in 1 .. Len(rows) :
        /\ rows[i].balance =
               RAdd(RSub(RAdd(rows[i].salaryBasis, rows[i].annualContribution),
                         rows[i].payout),
                    rows[i].interestEarned)
        /\ rows[i].salaryBasis = PreBalance(i)

\* a contributing, interest-earning accumulation row followed by a paying,
\* interest-earning decumulation row
C17_Witness ==
    /\ Len(rows) >= 2
    /\ RLt(Zero, rows[1].annualContribution)
    /\ RLt(Zero, rows[1].interestEarned)
    /\ RLt(Zero, rows[2].payout)
    /\ RLt(Zero, rows[2].interestEarned)

\* C18: after a decumulation row with balance 0, every later row has balance
\* 0, payout 0 and interest 0.
C18_DepletionAbsorbing ==
    \A i \in 1 .. Len(rows) :
        (IsPostRetirementRow(i) /\ rows[i].balance = Zero) =>
            \A j \in (i + 1) .. Len(rows) :
                /\ rows[j].balance = Zero
                /\ rows[j].payout = Zero
                /\ rows[j].interestEarned = Zero

\* a positive balance under positive rates was emptied by a positive
\* withdrawal, and a later row exists
C18_Witness ==
    \E i \in 1 .. Len(rows) :
        /\ i < Len(rows)
        /\ IsPostRetirementRow(i)
        /\ RLt(Zero, PreBalance(i))
        /\ RLt(Zero, annualWithdrawal)
        /\ RLt(Zero, savingsRate)
        /\ rows[i].balance = Zero

\* C14 (as claimed): generateProjections raises no runtime error, whatever
\* the ages, a retirement age below the current age included.
C14_GeneratorsComplete == gpPc # "TypeError"

\* a number that is finite and >= 0
IsFiniteNonNegative(x) == IsFinite(x) /\ RLe(Zero, x)

\* C15 (as claimed): every post-retirement point of generateProjections has
\* savings, investments and total that are finite numbers >= 0.
C15_PostRetirementPointsFinite ==
    \A i \in 1 .. Len(projections) :
        projections[i].year > yearsToRetirement =>
            /\ IsFiniteNonNegative(projections[i].savings)
            /\ IsFiniteNonNegative(projections[i].investments)
            /\ IsFiniteNonNegative(projections[i].total)

\* C19 (as claimed): once the save effect has written the state,
\* loadInitialState returns the accounts, ages and rates that were saved, a
\* growth rate of 0 included.
C19_SaveLoadRoundTrip ==
    (storage # None /\ ~saveEffectPending) => loadInitialState = dataToSave

\* C20 (as claimed): after a confirmed clearAllData and the effects that
\* follow it, localStorage holds no entry under STORAGE_KEY.
C20_ClearedStaysCleared ==
    (clearedLast /\ ~saveEffectPending) => storage = None

=============================================================================
